---- MODULE Spec2Model ----
(***************************************************************************)
(* A model of the composition core of blessed: the hierarchical event      *)
(* emitter (lib/events), the node tree (lib/widgets/node) and the layout    *)
(* widget (lib/widgets/layout).                                             *)
(*                                                                          *)
(* Every public operation is one atomic action: the program is single       *)
(* threaded and synchronous, so a call runs to completion, its listeners    *)
(* and their re-entrant calls included, before the next call starts.        *)
(***************************************************************************)
EXTENDS Integers, Sequences, FiniteSets, TLC

(***************************************************************************)
(* Bounds of the model.                                                     *)
(***************************************************************************)
\* Nodes 1 and 2 are the two screens, nodes 3..NumNodes are plain nodes.
NumNodes == 4
\* Listener registrations alive at once, summed over all buckets.
MaxReg == 3
\* Nesting of emits made from inside listeners.
MaxDepth == 1
\* constructor calls in a run
MaxUid == 4
\* children of the layout
MaxChildren == 3

Node == 1..NumNodes
Screens == {1, 2}
\* null
Nil == 0

VARIABLES
    \* lib/events: EventEmitter._events of every node
    events,
    \* the last call made on an emitter and what it did (history)
    elast,
    \* lib/widgets/node: the fields of every node.  screen = Nil: the node
    \* is not constructed yet; parent = Nil: null
    parent, children, screen, detached, destroyed, uid,
    \* Screen.focused of the two screens (Nil: none)
    focused,
    \* Screen.clickable and Screen.keyable of the two screens
    clickable, keyable,
    \* let nextUid
    nextUid,
    \* "ok", or "hang" once a call has entered a loop it never leaves
    status,
    \* the last call made on the tree and what it did (history)
    tlast,
    \* lib/widgets/layout: the options of the last new Layout(options), as
    \* the constructor left them, and how the constructor ended
    lopts, lresult,
    \* the children of that layout (elements: width, height, position.left,
    \* position.top, shrink, lpos), its own lpos, and the last render() call
    \* made on it and what it did (history)
    lchildren, lpos, rlast

evVars == <<events, elast>>
treeVars == <<parent, children, screen, detached, destroyed, uid, focused,
              clickable, keyable, nextUid, status, tlast>>
renderVars == <<lchildren, lpos, rlast>>
layoutVars == <<lopts, lresult, lchildren, lpos, rlast>>
vars == <<events, elast, parent, children, screen, detached, destroyed, uid,
          focused, clickable, keyable, nextUid, status, tlast, lopts, lresult,
          lchildren, lpos, rlast>>

(***************************************************************************)
(* lib/events.                                                              *)
(***************************************************************************)
\* Node.type / Screen.type
ntype(n) == IF n \in Screens THEN "screen" ELSE "node"

\* The event types of the model and the buckets listeners are registered
\* in.  No listener is registered for the two notification types
\* `newListener` and `removeListener`: their buckets stay undefined.
UserTypes == {"x", "error"}
El(t) == "element " \o t
RegBuckets == {"event", "x", "error", "element x", "element error"}
\* The emitters of the model: screen 1 and the plain nodes 3 and 4.
EvNodes == {1, 3, 4}
SlotSeq == <<<<1, "event">>, <<1, "x">>, <<1, "error">>,
             <<1, "element x">>, <<1, "element error">>,
             <<3, "event">>, <<3, "x">>, <<3, "error">>,
             <<3, "element x">>, <<3, "element error">>,
             <<4, "event">>, <<4, "x">>, <<4, "error">>,
             <<4, "element x">>, <<4, "element error">>>>

(***************************************************************************)
(* Listeners.  A bucket entry is a function object: a listener fn           *)
(* registered directly (wid = 0), or the wrapper `on` that once() creates   *)
(* around fn (wid: the identity of the wrapper object).  What the five      *)
(* listeners of the model do when called:                                   *)
(*   1  returns undefined                                                   *)
(*   2  returns false                                                       *)
(*   3  removes itself: this.off(type, itself)                              *)
(*   4  removes listener 1: this.off(type, listener1); returns true         *)
(*   5  emits "x" on its node again, unless it runs inside a nested emit    *)
(***************************************************************************)
Fns == 1..5
PlainFns == {1, 2}
OnceFns == {1, 5}
Entry(f, w) == [fn |-> f, wid |-> w]
Ret(f) == CASE f = 2 -> "false" [] f = 4 -> "true" [] OTHER -> "undef"
Eff(f) == CASE f = 3 -> "offSelf" [] f = 4 -> "offOther" [] f = 5 -> "emit"
            [] OTHER -> "none"

\* _events = {}: <<>> stands for an undefined bucket (no array is ever empty).
NoRegistry == [n \in EvNodes |-> [k \in RegBuckets |-> <<>>]]

(***************************************************************************)
(* A call works on the arrays themselves: a dispatch loop holds a           *)
(* reference to the array it iterates, which removeListener may splice      *)
(* (the loop sees it) or drop from _events (the loop keeps the array, and   *)
(* nothing changes it any more).  During a call, ev[n][k] is the array      *)
(* _events[k] of node n and dead[n][k] the arrays dropped from that place   *)
(* so far; the array a loop holds is named by its generation g: the g-th    *)
(* dropped one, or the current one when g = Len(dead[n][k]) + 1.            *)
(***************************************************************************)
Load(reg) ==
    [ev    |-> reg,
     dead  |-> [n \in EvNodes |-> [k \in RegBuckets |-> <<>>]],
     log   |-> <<>>,
     disps |-> <<>>,
     notif |-> <<>>]

Store(st) == st.ev

HasBucket(st, n, k) == k \in RegBuckets /\ st.ev[n][k] # <<>>
Gen(st, n, k) == Len(st.dead[n][k]) + 1
ArrayOf(st, n, k, g) ==
    IF g = Gen(st, n, k) THEN st.ev[n][k] ELSE st.dead[n][k][g]
\* delete this._events[type]  /  this._events[type] = undefined
Dropped(st, n, k) ==
    [st EXCEPT !.dead[n][k] = Append(@, st.ev[n][k]), !.ev[n][k] = <<>>]

\* Array.prototype.splice(i, 1)
SpliceOut(s, i) == [j \in 1..(Len(s) - 1) |-> IF j < i THEN s[j] ELSE s[j + 1]]

\* handler[i] === listener || handler[i].listener === listener
MatchesIdentityOnly(h, l) == h.fn = l.fn /\ h.wid = l.wid
Matches(h, l) ==
    IF l.wid = 0 THEN h.fn = l.fn ELSE h.wid = l.wid

FirstMatch(handler, l) ==
    IF \E i \in DOMAIN handler : Matches(handler[i], l)
    THEN CHOOSE i \in DOMAIN handler :
            /\ Matches(handler[i], l)
            /\ \A j \in 1..(i - 1) : ~Matches(handler[j], l)
    ELSE 0

\* What _emit returns when the type has no bucket.
MissingNeverThrows(k) == "undef"
MissingBucket(k) == IF k = "error" THEN "throw" ELSE "undef"

\* `=== false`
CancelledNever(ret) == FALSE
Cancelled(ret) == ret = "false"

\* emit: this.type === 'screen'
RootExemptNever(n) == FALSE
RootExempt(n) == ntype(n) = "screen"

\* emit: args.unshift(this)
ElementArgsPlain(n, args) == args
ElementArgs(n, args) == <<n>> \o args

RECURSIVE _emit(_, _, _, _, _)
RECURSIVE Loop(_, _, _, _, _, _, _, _, _)
RECURSIVE LoopShortCircuits(_, _, _, _, _, _, _, _, _)
RECURSIVE Apply(_, _, _, _, _, _, _)
RECURSIVE Call(_, _, _, _, _, _, _)
RECURSIVE removeListener(_, _, _, _, _)
RECURSIVE emit(_, _, _, _, _)
RECURSIVE Walk(_, _, _, _, _)

Notified(st, name, n, k, l) ==
    [st EXCEPT !.notif = Append(@, [name |-> name, n |-> n, k |-> k, l |-> l])]

removeListener(st, n, k, l, d) ==
    IF ~HasBucket(st, n, k) THEN st
    ELSE LET handler == st.ev[n][k] IN
         IF Len(handler) = 1
         THEN _emit(Notified(Dropped(st, n, k), "removeListener", n, k, l),
                    n, "removeListener", <<k, l>>, d).st
         ELSE LET i == FirstMatch(handler, l) IN
              IF i = 0 THEN st
              ELSE _emit(Notified([st EXCEPT !.ev[n][k] = SpliceOut(handler, i)],
                                  "removeListener", n, k, l),
                         n, "removeListener", <<k, l>>, d).st

addListener(st, n, k, l, d) ==
    _emit(Notified([st EXCEPT !.ev[n][k] = Append(@, l)], "newListener", n, k, l),
          n, "newListener", <<k, l>>, d).st

removeAllListeners(st, n, k) ==
    IF HasBucket(st, n, k) THEN Dropped(st, n, k) ELSE st

\* The wrapper `on` of once(): this.removeListener(type, on), before it
\* forwards to the listener.
OnceWrapper(st, n, k, h, d) == removeListener(st, n, k, h, d)

\* The listener starts to run: the history keeps the call, and for a
\* once() wrapper whether it was still in the bucket at that moment.
Logged(st, n, k, h, args, d, disp) ==
    [st EXCEPT !.log = Append(@,
        [n |-> n, k |-> k, fn |-> h.fn, wid |-> h.wid, args |-> args,
         d |-> d, disp |-> disp,
         present |-> /\ h.wid # 0
                     /\ \E i \in DOMAIN st.ev[n][k] : st.ev[n][k][i].wid = h.wid])]

\* The body of a listener.
Call(st, n, k, h, args, d, disp) ==
    LET st1 == Logged(st, n, k, h, args, d, disp) IN
    CASE Eff(h.fn) = "offSelf" ->
            [st |-> removeListener(st1, n, k, Entry(h.fn, 0), d), ret |-> Ret(h.fn)]
      [] Eff(h.fn) = "offOther" ->
            [st |-> removeListener(st1, n, k, Entry(1, 0), d), ret |-> Ret(h.fn)]
      [] Eff(h.fn) = "emit" /\ d < MaxDepth ->
            LET r == emit(st1, n, "x", <<>>, d + 1) IN
            [st |-> r.st, ret |-> IF r.ret = "throw" THEN "throw" ELSE Ret(h.fn)]
      [] OTHER -> [st |-> st1, ret |-> Ret(h.fn)]

\* handler.apply(this, args)
Apply(st, n, k, h, args, d, disp) ==
    IF h.wid # 0
    THEN Call(OnceWrapper(st, n, k, h, d), n, k, h, args, d, disp)
    ELSE Call(st, n, k, h, args, d, disp)

LoopShortCircuits(st, n, k, g, i, ret, args, d, disp) ==
    IF i > Len(ArrayOf(st, n, k, g)) THEN [st |-> st, ret |-> ret]
    ELSE LET r == Apply(st, n, k, ArrayOf(st, n, k, g)[i], args, d, disp) IN
         IF r.ret \in {"throw", "false"} THEN r
         ELSE LoopShortCircuits(r.st, n, k, g, i + 1, ret, args, d, disp)

\* for (let handler of handlers): the iterator reads the array's length and
\* element at every step.
Loop(st, n, k, g, i, ret, args, d, disp) ==
    IF i > Len(ArrayOf(st, n, k, g)) THEN [st |-> st, ret |-> ret]
    ELSE LET r == Apply(st, n, k, ArrayOf(st, n, k, g)[i], args, d, disp) IN
         IF r.ret = "throw" THEN r
         ELSE Loop(r.st, n, k, g, i + 1,
                   IF r.ret = "false" THEN "false" ELSE ret, args, d, disp)

_emit(st, n, k, args, d) ==
    IF ~HasBucket(st, n, k) THEN [st |-> st, ret |-> MissingBucket(k)]
    ELSE Loop([st EXCEPT !.disps = Append(@,
                   [n |-> n, k |-> k, d |-> d, snap |-> st.ev[n][k]])],
              n, k, Gen(st, n, k), 1, "true", args, d, Len(st.disps) + 1)

\* do { ... } while (el = el.parent)
Walk(st, el, k, args, d) ==
    LET r == IF ~HasBucket(st, el, k) THEN [st |-> st, ret |-> "undef"]
             ELSE _emit(st, el, k, args, d)
    IN IF r.ret = "throw" THEN r
       ELSE IF Cancelled(r.ret) THEN [st |-> r.st, ret |-> "false"]
       ELSE IF parent[el] = Nil THEN [st |-> r.st, ret |-> "true"]
       ELSE Walk(r.st, parent[el], k, args, d)

emit(st, n, t, args, d) ==
    LET r0 == _emit(st, n, "event", args, d) IN
    IF r0.ret = "throw" THEN r0
    ELSE IF RootExempt(n) THEN _emit(r0.st, n, t, args, d)
    ELSE LET r1 == _emit(r0.st, n, t, args, d) IN
         IF r1.ret = "throw" THEN r1
         ELSE IF Cancelled(r1.ret) THEN [st |-> r1.st, ret |-> "false"]
         ELSE Walk(r1.st, n, El(t), ElementArgs(n, args), d)

(***************************************************************************)
(* The calls a host makes on an emitter.                                    *)
(***************************************************************************)
Total(reg) ==
    LET RECURSIVE Sum(_)
        Sum(i) == IF i = 0 THEN 0
                  ELSE Sum(i - 1) + Len(reg[SlotSeq[i][1]][SlotSeq[i][2]])
    IN Sum(Len(SlotSeq))

\* A wrapper object no bucket holds.
WidsIn(reg) ==
    UNION {{reg[n][k][i].wid : i \in DOMAIN reg[n][k]} : n \in EvNodes, k \in RegBuckets}
FreshWid(reg) ==
    LET used == WidsIn(reg) IN
    CHOOSE w \in 1..(MaxReg + 1) : w \notin used /\ \A v \in 1..(w - 1) : v \in used

\* The history of a call; pre is the registry the call started from (kept
\* for the calls that remove or dispatch), prev the off() call made just
\* before this one, if any, and whether what it removed was a once() entry.
NoPrev == [n |-> 0, k |-> "", fn |-> 0, once |-> FALSE]
PrevOff ==
    IF elast.op = "off"
    THEN [n |-> elast.n, k |-> elast.k, fn |-> elast.l.fn,
          once |-> LET b == elast.pre[elast.n][elast.k] IN
                   /\ \E i \in DOMAIN b : b[i].fn = elast.l.fn
                   /\ \A i \in DOMAIN b : b[i].fn = elast.l.fn => b[i].wid # 0
                   /\ \A i, j \in DOMAIN b :
                         b[i].fn = elast.l.fn /\ b[j].fn = elast.l.fn => i = j]
    ELSE NoPrev
Did(op, n, k, l, args, ret, st) ==
    [op |-> op, n |-> n, k |-> k, l |-> l, args |-> args, ret |-> ret,
     log |-> st.log, disps |-> st.disps, notif |-> st.notif,
     pre |-> IF op \in {"on", "once"} THEN NoRegistry ELSE events,
     prev |-> IF op = "emit" THEN PrevOff ELSE NoPrev]

On(n, k, f) ==
    /\ Total(events) < MaxReg
    /\ LET st == addListener(Load(events), n, k, Entry(f, 0), 0) IN
       /\ events' = Store(st)
       /\ elast' = Did("on", n, k, Entry(f, 0), <<>>, "undef", st)
    /\ UNCHANGED <<treeVars, layoutVars>>

Once(n, k, f) ==
    /\ Total(events) < MaxReg
    /\ LET on == Entry(f, FreshWid(events))
           st == addListener(Load(events), n, k, on, 0) IN
       /\ events' = Store(st)
       /\ elast' = Did("once", n, k, on, <<>>, "undef", st)
    /\ UNCHANGED <<treeVars, layoutVars>>

Off(n, k, f) ==
    /\ LET st == removeListener(Load(events), n, k, Entry(f, 0), 0) IN
       /\ events' = Store(st)
       /\ elast' = Did("off", n, k, Entry(f, 0), <<>>, "undef", st)
    /\ UNCHANGED <<treeVars, layoutVars>>

RemoveAllListeners(n, k) ==
    /\ events[n][k] # <<>>
    /\ LET st == removeAllListeners(Load(events), n, k) IN
       /\ events' = Store(st)
       /\ elast' = Did("removeAll", n, k, Entry(0, 0), <<>>, "undef", st)
    /\ UNCHANGED <<treeVars, layoutVars>>

Emit(n, t, args) ==
    /\ LET r == emit(Load(events), n, t, args, 0) IN
       /\ events' = Store(r.st)
       /\ elast' = Did("emit", n, t, Entry(0, 0), args, r.ret, r.st)
    /\ UNCHANGED <<treeVars, layoutVars>>

(***************************************************************************)
(* Specifications of the emitter.                                           *)
(***************************************************************************)
NoCall ==
    [op |-> "none", n |-> 0, k |-> "", l |-> Entry(0, 0), args |-> <<>>,
     ret |-> "undef", log |-> <<>>, disps |-> <<>>, notif |-> <<>>,
     pre |-> NoRegistry, prev |-> NoPrev]

\* The emitters are the chain screen 1 <- node 3 <- node 4, built by
\* new Node({screen: 1, parent: 1}) and new Node({screen: 1, parent: 3}).
\* An option that is not given (undefined or null)
Absent == 0 - 1
NoOptions ==
    [width |-> Absent, height |-> Absent, left |-> Absent, right |-> Absent,
     top |-> Absent, bottom |-> Absent, layout |-> ""]

\* lpos: undefined, or the box {xi, xl, yi, yl}
NoBox == [set |-> FALSE, xi |-> 0, xl |-> 0, yi |-> 0, yl |-> 0]
Box(xi, xl, yi, yl) == [set |-> TRUE, xi |-> xi, xl |-> xl, yi |-> yi, yl |-> yl]
NoRender ==
    [op |-> "none", coords |-> NoBox, status |-> "ok", ret |-> NoBox,
     steps |-> <<>>, rendered |-> <<>>, elog |-> <<>>]

NoTreeCall ==
    [op |-> "none", a |-> Nil, b |-> Nil, status |-> "ok", elog |-> <<>>,
     rewinds |-> 0,
     pre |-> <<>>, from |-> Nil, undo |-> [valid |-> FALSE, pre |-> <<>>, was |-> FALSE]]

InitEv ==
    /\ events = NoRegistry
    /\ elast = NoCall
    /\ parent = [n \in Node |-> IF n = 4 THEN 3 ELSE IF n = 3 THEN 1 ELSE Nil]
    /\ children = [n \in Node |-> IF n = 1 THEN <<3>> ELSE IF n = 3 THEN <<4>> ELSE <<>>]
    /\ screen = [n \in Node |-> IF n = 2 THEN 2 ELSE 1]
    /\ detached = [n \in Node |-> FALSE]
    /\ destroyed = [n \in Node |-> FALSE]
    /\ uid = [n \in Node |-> n - 1]
    /\ focused = [s \in Screens |-> IF s = 1 THEN 3 ELSE Nil]
    /\ clickable = [s \in Screens |-> <<>>]
    /\ keyable = [s \in Screens |-> <<>>]
    /\ nextUid = NumNodes
    /\ status = "ok"
    /\ tlast = NoTreeCall
    /\ lopts = NoOptions
    /\ lresult = "none"
    /\ lchildren = <<>>
    /\ lpos = NoBox
    /\ rlast = NoRender

\* One node's registry under listeners that mutate it and emit again.
NextReg ==
    \/ \E f \in Fns : On(4, "x", f)
    \/ \E f \in OnceFns : Once(4, "x", f)
    \/ \E f \in Fns : Off(4, "x", f)
    \/ RemoveAllListeners(4, "x")
    \/ Emit(4, "x", <<>>)

SpecReg == InitEv /\ [][NextReg]_vars

\* Bubbling through the chain under listeners that only return a value.
BubbleBuckets == {"event", "x", "error", "element x", "element error"}

NextBubble ==
    \/ \E n \in {1, 3, 4}, k \in BubbleBuckets, f \in PlainFns : On(n, k, f)
    \/ \E n \in {1, 3, 4}, t \in UserTypes : Emit(n, t, <<0>>)

SpecBubble == InitEv /\ [][NextBubble]_vars

(***************************************************************************)
(* lib/widgets/node.  No listener is registered while the tree is           *)
(* exercised: an emit made by a tree operation is kept in the history, and  *)
(* its root-ward walk matters only in that it ends.                         *)
(***************************************************************************)
Constructed(n) == n \in Node /\ screen[n] # Nil

\* A call works on the fields; elog is the events it emitted, rewinds the
\* calls of Screen.rewindFocus it made.
LoadTree ==
    [parent |-> parent, children |-> children, screen |-> screen,
     detached |-> detached, destroyed |-> destroyed, focused |-> focused,
     clickable |-> clickable, keyable |-> keyable,
     elog |-> <<>>, status |-> "ok", rewinds |-> 0, rwok |-> TRUE]

\* Array.prototype.indexOf, 0 for -1
IndexOf(s, e) ==
    IF \E i \in DOMAIN s : s[i] = e
    THEN CHOOSE i \in DOMAIN s : s[i] = e /\ \A j \in 1..(i - 1) : s[j] # e
    ELSE 0

\* children.unshift / push / splice(i, 0, element); i is 0-based.
InsertAtReplacing(s, i, e) ==
    IF i >= 0 /\ i < Len(s) THEN [s EXCEPT ![i + 1] = e] ELSE Append(s, e)
InsertAt(s, i, e) ==
    IF i = 0 THEN <<e>> \o s
    ELSE IF i = Len(s) THEN Append(s, e)
    ELSE LET start == IF i < 0 THEN (IF Len(s) + i < 0 THEN 0 ELSE Len(s) + i)
                      ELSE IF i > Len(s) THEN Len(s) ELSE i
         IN SubSeq(s, 1, start) \o <<e>> \o SubSeq(s, start + 1, Len(s))

\* while (el = el.parent) never ends from x: the chain from x does not reach
\* null within NumNodes steps.
RECURSIVE ReachesNull(_, _, _)
ReachesNull(par, x, fuel) ==
    IF x = Nil THEN TRUE
    ELSE IF fuel = 0 THEN FALSE
    ELSE ReachesNull(par, par[x], fuel - 1)

\* EventEmitter.emit called by the tree: the screen returns after its local
\* dispatch, any other node walks its parent chain.
TEmit(st, x, type, arg) ==
    IF st.status # "ok" THEN st
    ELSE [st EXCEPT !.elog = Append(@, [type |-> type, n |-> x, arg |-> arg]),
                    !.status = IF ~RootExempt(x) /\ ~ReachesNull(st.parent, x, NumNodes)
                               THEN "hang" ELSE "ok"]

\* The nodes a depth-first pre-order recursion from x visits; it ends with
\* Nil where the recursion gets deeper than the tree has nodes (a node that
\* is among its own descendants: the recursion never returns).
RECURSIVE PreOrder(_, _, _)
RECURSIVE PreOrderAll(_, _, _, _)
RECURSIVE PreOrderNext(_, _, _, _, _)
PreOrder(ch, x, fuel) ==
    IF fuel = 0 THEN <<Nil>> ELSE <<x>> \o PreOrderAll(ch, ch[x], 1, fuel - 1)
PreOrderAll(ch, cs, i, fuel) ==
    IF i > Len(cs) THEN <<>>
    ELSE PreOrderNext(PreOrder(ch, cs[i], fuel), ch, cs, i, fuel)
PreOrderNext(first, ch, cs, i, fuel) ==
    IF first[Len(first)] = Nil THEN first
    ELSE first \o PreOrderAll(ch, cs, i + 1, fuel)

\* The body of the closures `emit` of insert and remove on one node:
\* el.detached = flag, and the event where the flag changed.
FlagAlwaysEmits(st, el, flag, type) ==
    TEmit([st EXCEPT !.detached[el] = flag], el, type, Nil)
Flag(st, el, flag, type) ==
    IF st.detached[el] # flag
    THEN TEmit([st EXCEPT !.detached[el] = flag], el, type, Nil)
    ELSE st

\* insert's closure `emit`, over the nodes in visiting order.
RECURSIVE MarkAttach(_, _, _, _)
MarkAttach(st, this, list, i) ==
    IF st.status # "ok" \/ i > Len(list) THEN st
    ELSE IF list[i] = Nil THEN [st EXCEPT !.status = "overflow"]
    ELSE MarkAttach(Flag(st, list[i], st.detached[this], "attach"), this, list, i + 1)

\* remove's closure `emit`.
RECURSIVE MarkDetach(_, _, _)
MarkDetach(st, list, i) ==
    IF st.status # "ok" \/ i > Len(list) THEN st
    ELSE IF list[i] = Nil THEN [st EXCEPT !.status = "overflow"]
    ELSE MarkDetach(Flag(st, list[i], TRUE, "detach"), list, i + 1)

\* Screen.rewindFocus (not part of the core): the screen picks rw, a node
\* of its own that is attached, or none.
rewindFocus(st, scr, rw) ==
    [st EXCEPT !.focused[scr] = rw,
               !.rewinds = @ + 1,
               !.rwok = rw = Nil \/ (st.screen[rw] = scr /\ ~st.detached[rw])]

\* helpers: removeIfExists(array, el)
removeIfExists(array, el) ==
    IF IndexOf(array, el) # 0 THEN SpliceOut(array, IndexOf(array, el)) ELSE array

\* remove, from element.parent = null to the two emits
Unlink(st, this, element) ==
    TEmit(TEmit([st EXCEPT !.parent[element] = Nil,
                           !.children[this] = SpliceOut(@, IndexOf(@, element)),
                           !.clickable[st.screen[this]] = removeIfExists(@, element),
                           !.keyable[st.screen[this]] = removeIfExists(@, element)],
                element, "reparent", Nil),
          this, "remove", element)

\* remove, emit(element)
Detached(st, element) ==
    MarkDetach(st, PreOrder(st.children, element, NumNodes + 1), 1)

\* remove, the focus
RewoundAlways(st, this, element, rw) ==
    IF st.status = "ok" THEN rewindFocus(st, st.screen[this], rw) ELSE st
Rewound(st, this, element, rw) ==
    IF st.status = "ok" /\ st.focused[st.screen[this]] = element
    THEN rewindFocus(st, st.screen[this], rw)
    ELSE st

\* element.clearPos() is Element's and clears the position of the last
\* render, which is no field of the tree.
removeUnregistersFirst(st, this, element, rw) ==
    IF st.status # "ok" THEN st
    ELSE IF st.parent[element] # this \/ IndexOf(st.children[this], element) = 0
    THEN [st EXCEPT !.clickable[st.screen[this]] = removeIfExists(@, element),
                    !.keyable[st.screen[this]] = removeIfExists(@, element)]
    ELSE Rewound(Detached(Unlink(st, this, element), element), this, element, rw)
remove(st, this, element, rw) ==
    IF st.status # "ok" THEN st
    ELSE IF st.parent[element] # this THEN st
    ELSE IF IndexOf(st.children[this], element) = 0 THEN st
    ELSE Rewound(Detached(Unlink(st, this, element), element), this, element, rw)

detachKeepsParent(st, n, rw) == st
detach(st, n, rw) ==
    IF st.status = "ok" /\ st.parent[n] # Nil
    THEN remove(st, st.parent[n], n, rw)
    ELSE st

\* insert, from element.parent = this to the two emits
Link(st, this, element, i) ==
    TEmit(TEmit([st EXCEPT !.parent[element] = this,
                           !.screen[element] = st.screen[this],
                           !.children[this] = InsertAt(@, i, element)],
                element, "reparent", this),
          this, "adopt", element)

\* insert, emit(element)
AttachedElementOnly(st, this, element) == MarkAttach(st, this, <<element>>, 1)
Attached(st, this, element) ==
    MarkAttach(st, this, PreOrder(st.children, element, NumNodes + 1), 1)

\* insert, the focus
FocusedAlways(st, this, element) ==
    IF st.status = "ok" THEN [st EXCEPT !.focused[st.screen[this]] = element] ELSE st
Focused(st, this, element) ==
    IF st.status = "ok" /\ st.focused[st.screen[this]] = Nil
    THEN [st EXCEPT !.focused[st.screen[this]] = element]
    ELSE st

\* insert, after element.detach()
Adopt(st, this, element, i) ==
    IF st.status # "ok" THEN st
    ELSE Focused(Attached(Link(st, this, element, i), this, element), this, element)

insertUnchecked(st, this, element, i, rw) ==
    IF st.status # "ok" THEN st ELSE Adopt(detach(st, element, rw), this, element, i)
insertChecksAttachedOnly(st, this, element, i, rw) ==
    IF st.status # "ok" THEN st
    ELSE IF ~st.detached[element] /\ st.screen[element] # st.screen[this]
    THEN [st EXCEPT !.status = "throw"]
    ELSE Adopt(detach(st, element, rw), this, element, i)
insert(st, this, element, i, rw) ==
    IF st.status # "ok" THEN st
    ELSE IF st.screen[element] # Nil /\ st.screen[element] # st.screen[this]
    THEN [st EXCEPT !.status = "throw"]
    ELSE Adopt(detach(st, element, rw), this, element, i)

\* el.free(): the hook of the variants, which does nothing in Node; the
\* call is kept with the events.
Freed(st, el) ==
    [st EXCEPT !.elog = Append(@, [type |-> "free", n |-> el, arg |-> Nil])]

\* forDescendants(iter, true) with destroy's iter.
RECURSIVE MarkDestroyed(_, _, _)
MarkDestroyed(st, list, i) ==
    IF st.status # "ok" \/ i > Len(list) THEN st
    ELSE IF list[i] = Nil THEN [st EXCEPT !.status = "overflow"]
    ELSE MarkDestroyed(TEmit([Freed(st, list[i]) EXCEPT !.destroyed[list[i]] = TRUE],
                             list[i], "destroy", Nil),
                       list, i + 1)

\* destroy, after this.detach()
Destroyed(st, n) ==
    MarkDestroyed(st, PreOrder(st.children, n, NumNodes + 1), 1)

destroyWithoutDetach(st, n, rw) == Destroyed(st, n)
destroy(st, n, rw) == Destroyed(detach(st, n, rw), n)

(***************************************************************************)
(* The calls a host makes on the tree.  A call that raises leaves what it   *)
(* had done so far and the host goes on; a call that hangs is the last.     *)
(***************************************************************************)
\* The history of a call on node a with argument b: for an insert, pre and
\* from are a.children and b.parent before the call; undo is set by a
\* remove(b) on a that follows an insert(b, i) on a directly.
NoUndo == [valid |-> FALSE, pre |-> <<>>, was |-> FALSE]
DidTree(op, a, b, st, undo) ==
    [op |-> op, a |-> a, b |-> b,
     status |-> st.status, elog |-> st.elog, rewinds |-> st.rewinds,
     pre |-> IF op = "insert" THEN children[a] ELSE <<>>,
     from |-> IF op = "insert" THEN parent[b] ELSE Nil,
     undo |-> undo]

\* Screen.rewindFocus is called only by a remove of the focused node; what
\* it picks matters only there.
RewindChoices(n) ==
    IF \E s \in Screens : focused[s] = n THEN Node \cup {Nil} ELSE {Nil}

\* The call ended in st, with the hook picking rw.
Commit(st, rw, op, a, b, undo) ==
    /\ st.rewinds = 0 => rw = Nil
    /\ st.rwok
    /\ parent' = st.parent
    /\ children' = st.children
    /\ screen' = st.screen
    /\ detached' = st.detached
    /\ destroyed' = st.destroyed
    /\ focused' = st.focused
    /\ clickable' = st.clickable
    /\ keyable' = st.keyable
    /\ status' = IF st.status = "hang" THEN "hang" ELSE "ok"
    /\ tlast' = DidTree(op, a, b, st, undo)
    /\ UNCHANGED <<uid, nextUid>>
    /\ UNCHANGED <<evVars, layoutVars>>

\* new Node({screen: scr, parent: par}) for the next node not constructed.
NextNode == CHOOSE n \in Node : ~Constructed(n) /\ \A m \in 1..(n - 1) : Constructed(m)

\* constructor, up to this.detached = true
Fresh(n, scr, par) ==
    [LoadTree EXCEPT !.screen[n] = scr, !.parent[n] = par,
                     !.children[n] = <<>>, !.detached[n] = TRUE]

\* this.uid = nextUid++
UidOfLiveCount == Cardinality({m \in Node : Constructed(m) /\ ~destroyed[m]})
NewUid == nextUid

\* The constructor of node n ended in st.
Constructs(st, n, par) ==
    /\ nextUid' = nextUid + 1
    /\ IF st.status = "throw"
       \* parent.append(this) raised: the caller gets no node
       THEN /\ UNCHANGED <<parent, children, screen, detached, destroyed,
                           focused, clickable, keyable, status, uid>>
            /\ tlast' = DidTree("new", Nil, par, [st EXCEPT !.elog = <<>>], NoUndo)
       ELSE /\ uid' = [uid EXCEPT ![n] = NewUid]
            /\ parent' = st.parent
            /\ children' = st.children
            /\ screen' = st.screen
            /\ detached' = st.detached
            /\ destroyed' = st.destroyed
            /\ focused' = st.focused
            /\ clickable' = st.clickable
            /\ keyable' = st.keyable
            /\ status' = IF st.status = "hang" THEN "hang" ELSE "ok"
            /\ tlast' = DidTree("new", n, par, st, NoUndo)
    /\ UNCHANGED evVars

New(scr, par) ==
    /\ status = "ok"
    /\ nextUid < MaxUid
    /\ \E n \in Node : ~Constructed(n)
    /\ (par = Nil \/ Constructed(par))
    /\ Constructs(IF par = Nil THEN Fresh(NextNode, scr, par)
                  ELSE insert(Fresh(NextNode, scr, par), par, NextNode,
                              Len(children[par]), Nil),
                  NextNode, par)
    /\ UNCHANGED layoutVars

\* insert's index: negative, inside, at the end and beyond the end
IndexRange == (0 - 1)..(NumNodes - 1)

Insert(a, b, i) ==
    /\ status = "ok" /\ Constructed(a) /\ Constructed(b)
    /\ \E rw \in RewindChoices(b) :
          Commit(insert(LoadTree, a, b, i, rw), rw, "insert", a, b, NoUndo)

Prepend(a, b) ==
    /\ status = "ok" /\ Constructed(a) /\ Constructed(b)
    /\ \E rw \in RewindChoices(b) :
          Commit(insert(LoadTree, a, b, 0, rw), rw, "prepend", a, b, NoUndo)

Append_(a, b) ==
    /\ status = "ok" /\ Constructed(a) /\ Constructed(b)
    /\ \E rw \in RewindChoices(b) :
          Commit(insert(LoadTree, a, b, Len(children[a]), rw), rw, "append", a, b, NoUndo)

\* insertBefore / insertAfter: children.indexOf(other) is taken before
\* insert detaches the element.
InsertBefore(a, b, o) ==
    /\ status = "ok" /\ Constructed(a) /\ Constructed(b) /\ Constructed(o)
    /\ \E rw \in RewindChoices(b) :
          Commit(IF IndexOf(children[a], o) # 0
                 THEN insert(LoadTree, a, b, IndexOf(children[a], o) - 1, rw)
                 ELSE LoadTree,
                 rw, "insertBefore", a, b, NoUndo)

InsertAfter(a, b, o) ==
    /\ status = "ok" /\ Constructed(a) /\ Constructed(b) /\ Constructed(o)
    /\ \E rw \in RewindChoices(b) :
          Commit(IF IndexOf(children[a], o) # 0
                 THEN insert(LoadTree, a, b, IndexOf(children[a], o), rw)
                 ELSE LoadTree,
                 rw, "insertAfter", a, b, NoUndo)

Remove(a, b) ==
    /\ status = "ok" /\ Constructed(a) /\ Constructed(b)
    /\ \E rw \in RewindChoices(b) :
          Commit(remove(LoadTree, a, b, rw), rw, "remove", a, b,
                 IF tlast.op = "insert" /\ tlast.status = "ok" /\ tlast.a = a /\ tlast.b = b
                 THEN [valid |-> TRUE, pre |-> tlast.pre, was |-> tlast.from = a]
                 ELSE NoUndo)

Detach(n) ==
    /\ status = "ok" /\ Constructed(n)
    /\ \E rw \in RewindChoices(n) :
          Commit(detach(LoadTree, n, rw), rw, "detach", n, Nil, NoUndo)

Destroy(n) ==
    /\ status = "ok" /\ Constructed(n)
    /\ \E rw \in RewindChoices(n) :
          Commit(destroy(LoadTree, n, rw), rw, "destroy", n, Nil, NoUndo)

\* The two screens exist; every other node is still to be constructed.
InitTree ==
    /\ events = NoRegistry
    /\ elast = NoCall
    /\ parent = [n \in Node |-> Nil]
    /\ children = [n \in Node |-> <<>>]
    /\ screen = [n \in Node |-> IF n \in Screens THEN n ELSE Nil]
    /\ detached = [n \in Node |-> n \notin Screens]
    /\ destroyed = [n \in Node |-> FALSE]
    /\ uid = [n \in Node |-> IF n \in Screens THEN n - 1 ELSE Nil]
    /\ focused = [s \in Screens |-> Nil]
    /\ clickable = [s \in Screens |-> <<>>]
    /\ keyable = [s \in Screens |-> <<>>]
    /\ nextUid = Cardinality(Screens)
    /\ status = "ok"
    /\ tlast = NoTreeCall
    /\ lopts = NoOptions
    /\ lresult = "none"
    /\ lchildren = <<>>
    /\ lpos = NoBox
    /\ rlast = NoRender

\* The host moves, removes and destroys the plain nodes; what a Screen does
\* when it is itself inserted or destroyed is not part of the core.
Plain == Node \ Screens
\* The plain nodes are constructed for the first screen; the second screen
\* is the foreign one.
HostScreens == {1}

NextTree ==
    \/ \E scr \in HostScreens, par \in Node \cup {Nil} : New(scr, par)
    \/ \E a \in Node, b \in Plain :
          \/ \E i \in IndexRange : Insert(a, b, i)
          \/ Prepend(a, b)
          \/ Append_(a, b)
          \/ Remove(a, b)
          \/ \E o \in Plain : InsertBefore(a, b, o) \/ InsertAfter(a, b, o)
    \/ \E n \in Plain : Detach(n) \/ Destroy(n)

SpecTree == InitTree /\ [][NextTree]_vars

(***************************************************************************)
(* The registries of the screen.  Screen._listenMouse and _listenKeys, by   *)
(* which an element enters them, are not part of the core: each adds the    *)
(* element to the registry of its screen unless it is in it.                *)
(***************************************************************************)
Listened(kind, n) ==
    [NoTreeCall EXCEPT !.op = kind, !.a = n]

ListenMouse(n) ==
    /\ status = "ok" /\ Constructed(n)
    /\ IndexOf(clickable[screen[n]], n) = 0
    /\ clickable' = [clickable EXCEPT ![screen[n]] = Append(@, n)]
    /\ tlast' = Listened("listenMouse", n)
    /\ UNCHANGED <<parent, children, screen, detached, destroyed, uid, focused,
                   keyable, nextUid, status>>
    /\ UNCHANGED <<evVars, layoutVars>>

ListenKeys(n) ==
    /\ status = "ok" /\ Constructed(n)
    /\ IndexOf(keyable[screen[n]], n) = 0
    /\ keyable' = [keyable EXCEPT ![screen[n]] = Append(@, n)]
    /\ tlast' = Listened("listenKeys", n)
    /\ UNCHANGED <<parent, children, screen, detached, destroyed, uid, focused,
                   clickable, nextUid, status>>
    /\ UNCHANGED <<evVars, layoutVars>>

NextRegistry ==
    \/ \E scr \in HostScreens, par \in Node \cup {Nil} : New(scr, par)
    \/ \E a \in Node, b \in Plain : Remove(a, b)
    \/ \E n \in Plain : Detach(n) \/ ListenMouse(n) \/ ListenKeys(n)

SpecRegistry == InitTree /\ [][NextRegistry]_vars

(***************************************************************************)
(* lib/widgets/layout.  A Layout is an Element and so a Node: a constructor *)
(* that passes its check constructs the next node, for the given screen and *)
(* without parent; no renderer option is given.                             *)
(***************************************************************************)
OptionValues == {Absent, 0, 2}
LayoutModes == {"", "inline", "grid"}
LayoutOptions ==
    [width : OptionValues, height : OptionValues, left : OptionValues,
     right : OptionValues, top : OptionValues, bottom : OptionValues,
     layout : LayoutModes]

\* the condition of the constructor's throw
Rejects(o) ==
    \/ (o.width = Absent /\ (o.left = Absent /\ o.right = Absent))
    \/ (o.height = Absent /\ (o.top = Absent /\ o.bottom = Absent))

NewLayout(scr, o) ==
    /\ status = "ok"
    /\ nextUid < MaxUid
    /\ \E n \in Node : ~Constructed(n)
    /\ IF Rejects(o)
       THEN /\ lopts' = o
            /\ lresult' = "throw"
            /\ UNCHANGED <<treeVars, evVars>>
       ELSE /\ lopts' = [o EXCEPT !.layout = IF @ = "" THEN "inline" ELSE @]
            /\ lresult' = "constructed"
            /\ Constructs(Fresh(NextNode, scr, Nil), NextNode, Nil)
    /\ UNCHANGED renderVars

NextLayout ==
    \E scr \in HostScreens, o \in LayoutOptions : NewLayout(scr, o)

SpecLayout == InitTree /\ [][NextLayout]_vars

(***************************************************************************)
(* Layout.render.  The children are elements with a width and a height of  *)
(* their own; Element (its _getCoords, _render and render) is not part of   *)
(* the core: _getCoords gives the layout the box coords of the call, or     *)
(* undefined, and a child's render resolves the child's box from its        *)
(* position inside the layout.  The layout has no border and no padding,    *)
(* and the renderer is the one of the class, which never returns false.     *)
(* Indices are counted from 1: rowIndex = 1 is the code's rowIndex = 0.     *)
(***************************************************************************)
\* el.width, el.height of the children the model draws
ChildSizes ==
    {<<w, h>> : w \in {2, 3, 4, 5}, h \in {1, 2}} \cup {<<0, 1>>, <<2, 0>>}
Child(size) ==
    [width |-> size[1], height |-> size[2], left |-> Absent, top |-> Absent,
     shrink |-> FALSE, lpos |-> NoBox]

\* A call works on the fields of the layout and its children and on the
\* variables of the closure the renderer returns; steps is what the closure
\* did for each child it was called for, rendered the children whose
\* render was called, elog the events emitted.
LoadRender ==
    [children |-> lchildren, lpos |-> lpos,
     rowOffset |-> 0, rowIndex |-> 1, lastRowIndex |-> 1,
     steps |-> <<>>, rendered |-> <<>>, elog |-> <<>>,
     status |-> "ok", ret |-> NoBox]

isRendered(el) ==
    IF ~el.lpos.set THEN FALSE
    ELSE (el.lpos.xl - el.lpos.xi) > 0 /\ (el.lpos.yl - el.lpos.yi) > 0

\* getLast(i): the index of the element, 0 for null
RECURSIVE getLast(_, _)
getLastImmediate(ch, i) == IF i <= 1 THEN 0 ELSE i - 1
getLast(ch, i) ==
    IF i <= 1 THEN 0
    ELSE IF isRendered(ch[i - 1]) THEN i - 1
    ELSE getLast(ch, i - 1)

Max(a, b) == IF a >= b THEN a ELSE b

\* this.children.reduce((out, el) => Math.max(out, el.width), 0)
RECURSIVE MaxWidth(_, _)
MaxWidth(ch, i) == IF i = 0 THEN 0 ELSE Max(MaxWidth(ch, i - 1), ch[i].width)
highWidth(ch) == MaxWidth(ch, Len(ch))

\* this.children.slice(rowIndex, i).reduce(...): the highest lpos of the
\* rendered children from..(to - 1)
RECURSIVE RowHeight(_, _, _)
RowHeight(ch, from, to) ==
    IF from >= to THEN 0
    ELSE IF ~isRendered(ch[to - 1]) THEN RowHeight(ch, from, to - 1)
    ELSE Max(RowHeight(ch, from, to - 1), ch[to - 1].lpos.yl - ch[to - 1].lpos.yi)

\* el.position.left, before the row-wrap test
CandidateAfterLast(ch, mode, xi, last) == ch[last].lpos.xl - xi
CandidateOverLast(ch, mode, xi, last) == ch[last].lpos.xi - xi
Candidate(ch, mode, xi, last) ==
    IF mode = "grid"
    THEN (ch[last].lpos.xl - xi)
         + (highWidth(ch) - (ch[last].lpos.xl - ch[last].lpos.xi))
    ELSE ch[last].lpos.xl - xi

\* the row-wrap test and its two branches
WrappedKeepsOffset(rs, i, left, width) ==
    IF left + rs.children[i].width <= width
    THEN [rs EXCEPT !.children[i].left = left, !.children[i].top = rs.rowOffset]
    ELSE [rs EXCEPT !.lastRowIndex = rs.rowIndex,
                    !.rowIndex = i,
                    !.children[i].left = 0,
                    !.children[i].top = rs.rowOffset]
Wrapped(rs, i, left, width) ==
    IF left + rs.children[i].width <= width
    THEN [rs EXCEPT !.children[i].left = left, !.children[i].top = rs.rowOffset]
    ELSE [rs EXCEPT !.rowOffset = @ + RowHeight(rs.children, rs.rowIndex, i),
                    !.lastRowIndex = rs.rowIndex,
                    !.rowIndex = i,
                    !.children[i].left = 0,
                    !.children[i].top = rs.rowOffset
                                        + RowHeight(rs.children, rs.rowIndex, i)]

\* the closure, up to the row-wrap test
Placed(rs, mode, xi, width, i, last) ==
    IF last = 0
    THEN [rs EXCEPT !.children[i].left = 0, !.children[i].top = 0]
    ELSE Wrapped(rs, i, Candidate(rs.children, mode, xi, last), width)

\* the closure's inline part.  Its loop reads self.children[j], and nothing
\* binds `self` in the module: the first pass of the loop raises.  The loop
\* is entered when lastRowIndex < rowIndex, that is from the first wrap on.
Gravitated(rs, mode, i) ==
    IF mode = "inline" /\ rs.lastRowIndex < rs.rowIndex
    THEN [rs EXCEPT !.status = "throw"]
    ELSE rs

\* what the closure did for child i
Stepped(rs, i, last) ==
    [rs EXCEPT !.steps = Append(@,
        [i |-> i, last |-> last,
         left |-> rs.children[i].left, top |-> rs.children[i].top,
         rowOffset |-> rs.rowOffset, rowIndex |-> rs.rowIndex,
         lastRowIndex |-> rs.lastRowIndex, status |-> rs.status])]

\* iterator(el, i)
iterator(rs, mode, xi, width, i) ==
    Stepped(Gravitated(Placed([rs EXCEPT !.children[i].shrink = TRUE],
                              mode, xi, width, i, getLast(rs.children, i)),
                       mode, i),
            i, getLast(rs.children, i))

\* el.render() of a child (Element's): the box of the child from its
\* position in the layout; a child with no width or no height returns
\* before its lpos is set.
ElementRender(rs, xi, yi, i) ==
    IF rs.status # "ok" THEN rs
    ELSE IF rs.children[i].width <= 0 \/ rs.children[i].height <= 0
    THEN [rs EXCEPT !.rendered = Append(@, i)]
    ELSE [rs EXCEPT !.rendered = Append(@, i),
                    !.children[i].lpos =
                        Box(xi + rs.children[i].left,
                            xi + rs.children[i].left + rs.children[i].width,
                            yi + rs.children[i].top,
                            yi + rs.children[i].top + rs.children[i].height)]

\* this.children.forEach((el, i) => ...)
RECURSIVE forEach(_, _, _, _, _, _)
forEach(rs, mode, xi, yi, width, i) ==
    IF rs.status # "ok" \/ i > Len(rs.children) THEN rs
    ELSE forEach(ElementRender(iterator(rs, mode, xi, width, i), xi, yi, i),
                 mode, xi, yi, width, i + 1)

REmit(rs, type) ==
    IF rs.status # "ok" THEN rs ELSE [rs EXCEPT !.elog = Append(@, type)]

Returned(rs, coords) ==
    IF rs.status # "ok" THEN rs ELSE [rs EXCEPT !.ret = coords]

\* render(), after this._emit('prerender'), with coords what
\* this._renderCoords() gave
Resolved(rs, mode, coords) ==
    IF ~coords.set THEN [rs EXCEPT !.lpos = NoBox]
    ELSE IF coords.xl - coords.xi <= 0 THEN rs
    ELSE IF coords.yl - coords.yi <= 0 THEN rs
    ELSE Returned(REmit(forEach([rs EXCEPT !.lpos = coords], mode,
                                coords.xi, coords.yi, coords.xl - coords.xi, 1),
                        "render"),
                  coords)

render(rs, mode, coords) == Resolved(REmit(rs, "prerender"), mode, coords)

\* The boxes _getCoords gives: none, without width, without height, and of
\* width 7, 10 and 15.
CoordsInputs ==
    {NoBox, Box(1, 1, 2, 5), Box(1, 8, 2, 2), Box(1, 8, 2, 5), Box(1, 11, 2, 5),
     Box(1, 16, 2, 5)}

Rendered(rs, coords) ==
    /\ lchildren' = rs.children
    /\ lpos' = rs.lpos
    /\ rlast' = [op |-> "render", coords |-> coords, status |-> rs.status,
                 ret |-> rs.ret, steps |-> rs.steps, rendered |-> rs.rendered,
                 elog |-> rs.elog]

Render(coords) ==
    /\ lresult = "constructed"
    /\ Rendered(render(LoadRender, lopts.layout, coords), coords)
    /\ UNCHANGED <<evVars, treeVars, lopts, lresult>>

\* A layout constructed with a width and a height, in either mode, with up
\* to MaxChildren children appended.
InitRender ==
    /\ events = NoRegistry
    /\ elast = NoCall
    /\ parent = [n \in Node |-> Nil]
    /\ children = [n \in Node |-> <<>>]
    /\ screen = [n \in Node |-> IF n \in Screens THEN n ELSE Nil]
    /\ detached = [n \in Node |-> n \notin Screens]
    /\ destroyed = [n \in Node |-> FALSE]
    /\ uid = [n \in Node |-> IF n \in Screens THEN n - 1 ELSE Nil]
    /\ focused = [s \in Screens |-> Nil]
    /\ clickable = [s \in Screens |-> <<>>]
    /\ keyable = [s \in Screens |-> <<>>]
    /\ nextUid = Cardinality(Screens)
    /\ status = "ok"
    /\ tlast = NoTreeCall
    /\ \E mode \in {"inline", "grid"} :
          lopts = [NoOptions EXCEPT !.width = 2, !.height = 2, !.layout = mode]
    /\ lresult = "constructed"
    /\ \E n \in 0..MaxChildren : \E sizes \in [1..n -> ChildSizes] :
          lchildren = [i \in 1..n |-> Child(sizes[i])]
    /\ lpos = NoBox
    /\ rlast = NoRender

NextRender == \E coords \in CoordsInputs : Render(coords)

SpecRender == InitRender /\ [][NextRender]_vars

(***************************************************************************)
(* Properties of the tree.                                                 *)
(***************************************************************************)
\* C9: A.insert(B, i) directly followed by A.remove(B) leaves A.children as
\* it was before the insert, for every A, B and i, B already a child of A
\* included.
C9_InsertRemoveRestores ==
    tlast.undo.valid => children[tlast.a] = tlast.undo.pre

\* C9, for a B that was not a child of A before the insert (it had no
\* parent or another one): A.insert(B, i) directly followed by A.remove(B)
\* leaves A.children as it was before the insert.
C9_InsertRemoveRestoresNewChild ==
    (tlast.undo.valid /\ ~tlast.undo.was) => children[tlast.a] = tlast.undo.pre

\* B came from another parent into a non-empty A.children and was removed.
C9_Witness ==
    /\ tlast.op = "remove" /\ tlast.status = "ok"
    /\ tlast.undo.valid /\ ~tlast.undo.was
    /\ tlast.undo.pre # <<>>
    /\ children[tlast.a] = tlast.undo.pre
    /\ \E e \in DOMAIN tlast.elog : tlast.elog[e].type = "remove"

\* C10: parent and children agree (B is in A.children exactly when
\* B.parent is A) and no node occurs twice in the children lists.
C10_ParentChildrenConsistent ==
    /\ \A a, b \in Node :
          (\E i \in DOMAIN children[a] : children[a][i] = b) <=> parent[b] = a
    /\ \A a, c \in Node : \A i \in DOMAIN children[a], j \in DOMAIN children[c] :
          children[a][i] = children[c][j] => (a = c /\ i = j)

\* An insert has moved a node from another parent.
C10_Witness ==
    /\ tlast.op = "insert" /\ tlast.status = "ok"
    /\ tlast.from \notin {Nil, tlast.a}
    /\ parent[tlast.b] = tlast.a
    /\ \A i \in DOMAIN children[tlast.from] : children[tlast.from][i] # tlast.b


\* The parent chain from x reaches root (x itself included).
RECURSIVE ChainReaches(_, _, _)
ChainReaches(x, root, fuel) ==
    IF x = root THEN TRUE
    ELSE IF x = Nil \/ fuel = 0 THEN FALSE
    ELSE ChainReaches(parent[x], root, fuel - 1)

\* C11: a node's detached flag is true exactly when the node is not
\* reachable from its screen's root through the parent chain.
C11_DetachedIffUnreachable ==
    \A n \in Node :
        Constructed(n) => (detached[n] <=> ~ChainReaches(n, screen[n], NumNodes))

\* An insert under an attached parent has flipped a subtree of two nodes.
C11_Witness ==
    /\ tlast.op = "insert" /\ tlast.status = "ok"
    /\ ~detached[tlast.a]
    /\ \E c \in Plain : /\ parent[c] = tlast.b /\ ~detached[c] /\ ~detached[tlast.b]
                         /\ \E e \in DOMAIN tlast.elog :
                               tlast.elog[e].type = "attach" /\ tlast.elog[e].n = c

\* The nodes the events of one type were emitted on, in order.
EventNodes(log, type) ==
    LET sel == SelectSeq(log, LAMBDA e : e.type = type)
    IN [j \in DOMAIN sel |-> sel[j].n]

Emitted(log, type) == \E j \in DOMAIN log : log[j].type = type

InSeq(x, seq) == \E j \in DOMAIN seq : seq[j] = x

\* The calls that move a node, and the node they move.
InsertOps == {"insert", "prepend", "append", "insertBefore", "insertAfter"}
MoveOps == InsertOps \cup {"remove", "detach", "destroy"}
Moved(call) == IF call.op \in {"detach", "destroy"} THEN call.a ELSE call.b

C13_CrossScreenInsertFails ==
    [][(tlast'.op \in {"insert", "prepend", "append"}
          /\ screen[tlast'.b] # screen[tlast'.a]) =>
        /\ tlast'.status = "throw"
        /\ tlast'.elog = <<>>
        /\ UNCHANGED <<parent, children, screen, detached, destroyed, focused>>
      ]_vars

\* An attached child of the first screen was inserted into the second.
C13_Witness ==
    /\ tlast.op = "insert" /\ tlast.status = "throw"
    /\ screen[tlast.b] # screen[tlast.a]
    /\ parent[tlast.b] # Nil /\ ~detached[tlast.b]
    /\ \A j \in DOMAIN children[tlast.a] : children[tlast.a][j] # tlast.b

\* C14: every node that has a parent has the screen of that parent, and
\* no call changes the screen a constructed node has.
C14_ScreenIsStable ==
    /\ [](\A n \in Node : parent[n] # Nil => screen[n] = screen[parent[n]])
    /\ [][\A n \in Node : Constructed(n) => screen'[n] = screen[n]]_vars

\* A node was inserted under a node constructed after it.
C14_Witness ==
    /\ tlast.op \in InsertOps /\ tlast.status = "ok"
    /\ tlast.a \in Plain /\ parent[tlast.b] = tlast.a
    /\ uid[tlast.b] < uid[tlast.a]
    /\ screen[tlast.b] = screen[tlast.a]

\* The position of the first event of a type on node n in the log, 0 if none.
EventAt(log, type, n) ==
    IF \E j \in DOMAIN log : log[j].type = type /\ log[j].n = n
    THEN CHOOSE j \in DOMAIN log :
            /\ log[j].type = type /\ log[j].n = n
            /\ \A k \in 1..(j - 1) : ~(log[k].type = type /\ log[k].n = n)
    ELSE 0

\* C15: destroy() on a node with N descendants first detaches the node from
\* its parent, then visits the node and each descendant exactly once in
\* depth-first pre-order: free is called, destroyed is set and `destroy` is
\* emitted on each, N + 1 `destroy` events in all, and no other node is
\* marked.
C15_DestroyVisitsSubtreeOnce ==
    [][(tlast'.op = "destroy" /\ tlast'.status = "ok") =>
        LET n == tlast'.a
            sub == PreOrder(children, n, NumNodes + 1)
            N == Cardinality({m \in Node \ {n} : ChainReaches(m, n, NumNodes)})
            log == tlast'.elog
        IN /\ EventNodes(log, "destroy") = sub
           /\ EventNodes(log, "free") = sub
           /\ Len(EventNodes(log, "destroy")) = N + 1
           /\ \A m \in Node : InSeq(m, sub) =>
                 /\ destroyed'[m]
                 /\ EventAt(log, "free", m) < EventAt(log, "destroy", m)
           /\ \A m \in Node : ~InSeq(m, sub) => destroyed'[m] = destroyed[m]
           /\ parent'[n] = Nil
           /\ \A a \in Node : ~InSeq(n, children'[a])
           /\ \A j, k \in DOMAIN log :
                 (log[j].type \in {"reparent", "remove", "detach"}
                    /\ log[k].type \in {"free", "destroy"}) => j < k
      ]_vars

\* An attached node with a child was destroyed.
C15_Witness ==
    /\ tlast.op = "destroy" /\ tlast.status = "ok"
    /\ Len(EventNodes(tlast.elog, "destroy")) = 2
    /\ Emitted(tlast.elog, "remove") /\ Emitted(tlast.elog, "detach")
    /\ destroyed[tlast.a] /\ parent[tlast.a] = Nil

\* C16: P.remove(C) when C.parent is not P, and N.detach() when N has no
\* parent, return normally, emit no event and leave every children list,
\* parent, detached flag, focus and both registries of the screens as they
\* were.
C16_NoOpsChangeNothing ==
    [][(\/ tlast'.op = "remove" /\ parent[tlast'.b] # tlast'.a
        \/ tlast'.op = "detach" /\ parent[tlast'.a] = Nil) =>
        /\ tlast'.status = "ok"
        /\ tlast'.elog = <<>>
        /\ UNCHANGED <<parent, children, screen, detached, destroyed, focused,
                       clickable, keyable>>
      ]_vars

\* remove was called on a node that is not the child's parent, for a child
\* that is focused and in both registries.
C16_Witness ==
    /\ tlast.op = "remove" /\ tlast.elog = <<>>
    /\ parent[tlast.b] # tlast.a
    /\ focused[screen[tlast.b]] = tlast.b
    /\ IndexOf(clickable[screen[tlast.b]], tlast.b) # 0
    /\ IndexOf(keyable[screen[tlast.b]], tlast.b) # 0

\* C17: remove(child) calls the screen's rewindFocus exactly once when it
\* removes the child and the child is the screen's focused node, and not
\* at all otherwise.
C17_RewindOnlyForFocusedChild ==
    [][(tlast'.op = "remove" /\ tlast'.status = "ok") =>
        tlast'.rewinds = IF parent[tlast'.b] = tlast'.a
                            /\ focused[screen[tlast'.a]] = tlast'.b
                         THEN 1 ELSE 0
      ]_vars

\* The focused child was removed and the hook was called.
C17_Witness ==
    /\ tlast.op = "remove" /\ tlast.status = "ok"
    /\ tlast.rewinds = 1
    /\ parent[tlast.b] = Nil
    /\ focused[screen[tlast.a]] # tlast.b

\* C18: after an insert that succeeded, the focused node of the screen is
\* the child if the screen had none, and is the one it was if that was
\* another node than the child.
C18_InsertDefaultsFocus ==
    [][(tlast'.op \in InsertOps /\ tlast'.status = "ok"
          /\ Emitted(tlast'.elog, "adopt")) =>
        LET scr == screen[tlast'.a] IN
        /\ focused[scr] = Nil => focused'[scr] = tlast'.b
        /\ focused[scr] \notin {Nil, tlast'.b} => focused'[scr] = focused[scr]
      ]_vars

\* A node was inserted while another node had the focus, which stayed.
C18_Witness ==
    /\ tlast.op \in InsertOps /\ tlast.status = "ok"
    /\ Emitted(tlast.elog, "adopt") /\ Emitted(tlast.elog, "attach")
    /\ focused[screen[tlast.a]] \in Plain \ {tlast.b}

\* C19: the ids come from one counter that only grows: a node keeps its
\* id, a newly constructed node gets an id greater than every id given
\* before, and no two nodes have the same id, whatever is destroyed,
\* detached or inserted between the constructions.
C19_UidsGrowAndNeverRepeat ==
    /\ [](\A n, m \in Node :
            (Constructed(n) /\ Constructed(m) /\ n # m) => uid[n] # uid[m])
    /\ [][/\ nextUid' >= nextUid
          /\ \A n \in Node :
                /\ Constructed(n) => (Constructed(n)' /\ uid'[n] = uid[n])
                /\ (~Constructed(n) /\ Constructed(n)') =>
                      /\ nextUid' > uid'[n]
                      /\ \A m \in Node : Constructed(m) => uid'[n] > uid[m]
         ]_vars

\* A node was constructed after an older node had been destroyed.
C19_Witness ==
    /\ tlast.op = "new" /\ tlast.a # Nil
    /\ \E m \in Plain : /\ destroyed[m] /\ m # tlast.a
                         /\ uid[m] < uid[tlast.a]

\* C27: after P.insertBefore(E, O) with O a child of P, E is the child
\* right before O in P.children, and after P.insertAfter(E, O) the child
\* right after O, wherever E was before (without parent, under another
\* node, under P before or after O); with O no child of P the call changes
\* nothing.
C27_InsertBesideReference ==
    [][\A a \in Node, b \in Plain, o \in Plain :
          /\ (InsertBefore(a, b, o) /\ b # o /\ IndexOf(children[a], o) # 0
                  /\ tlast'.status = "ok") =>
                 /\ IndexOf(children'[a], b) # 0
                 /\ IndexOf(children'[a], b) + 1 = IndexOf(children'[a], o)
          /\ (InsertAfter(a, b, o) /\ b # o /\ IndexOf(children[a], o) # 0
                  /\ tlast'.status = "ok") =>
                 /\ IndexOf(children'[a], b) # 0
                 /\ IndexOf(children'[a], b) = IndexOf(children'[a], o) + 1
          /\ ((InsertBefore(a, b, o) \/ InsertAfter(a, b, o))
                  /\ IndexOf(children[a], o) = 0) =>
                 UNCHANGED <<parent, children, screen, detached, destroyed,
                             focused, clickable, keyable>>]_vars

\* C28: after every sequence of insert, prepend, append, insertBefore,
\* insertAfter, remove and detach calls, a node inserted into itself or
\* into one of its descendants included, no node is its own ancestor, every
\* parent chain ends, and every insert call has returned.
C28_ParentRelationAcyclic ==
    /\ status # "hang"
    /\ \A n \in Node : ReachesNull(parent, n, NumNodes)

\* C29: in every state the tree reaches, the focused node of a screen, when
\* there is one, is attached (the rewindFocus hook picking attached nodes
\* only, or none).
C29_FocusIsAttached ==
    \A s \in Screens : focused[s] # Nil => ~detached[focused[s]]

\* C31: in every state the tree reaches, a node with destroyed = true is
\* detached (no insert after its destroy attaches it again), and a destroy
\* of a node that is destroyed already emits no `destroy` on it.
C31_DestroyedStaysDetached ==
    /\ [](\A n \in Node : destroyed[n] => detached[n])
    /\ [][\A n \in Plain :
             (destroyed[n] /\ tlast'.op = "destroy" /\ tlast'.a = n) =>
                 \A i \in DOMAIN tlast'.elog :
                     ~(tlast'.elog[i].type = "destroy" /\ tlast'.elog[i].n = n)]_vars

(***************************************************************************)
(* Properties of the layout.                                               *)
(***************************************************************************)
Given(v) == v # Absent

\* C20: new Layout(options) raises unless the options give a width or both
\* left and right, and a height or both top and bottom.
C20_LayoutNeedsDimensions ==
    lresult # "none" =>
        (lresult = "throw" <=>
            ~(/\ (Given(lopts.width) \/ (Given(lopts.left) /\ Given(lopts.right)))
              /\ (Given(lopts.height) \/ (Given(lopts.top) /\ Given(lopts.bottom)))))

(***************************************************************************)
(* Properties of the layout's render.                                      *)
(***************************************************************************)
\* C21: after a render for which the layout's box has no positive width or
\* no positive height, the layout has no lpos, also when an earlier render
\* had set one, and no child was placed or rendered.
C21_EmptyBoxClearsAndSkips ==
    (/\ rlast.op = "render" /\ rlast.coords.set
     /\ \/ rlast.coords.xl - rlast.coords.xi <= 0
        \/ rlast.coords.yl - rlast.coords.yi <= 0)
    => (~lpos.set /\ rlast.steps = <<>> /\ rlast.rendered = <<>>)

\* The last render reached the placement pass.
Passed == rlast.op = "render" /\ rlast.steps # <<>>
\* The container's origin and width in the last render.
OriginX == rlast.coords.xi
OriginY == rlast.coords.yi
InnerWidth == rlast.coords.xl - rlast.coords.xi
Visible(k) ==
    /\ lchildren[k].lpos.set
    /\ lchildren[k].lpos.xl - lchildren[k].lpos.xi > 0
    /\ lchildren[k].lpos.yl - lchildren[k].lpos.yi > 0
BoxWidth(k) == lchildren[k].lpos.xl - lchildren[k].lpos.xi
BoxHeight(k) == lchildren[k].lpos.yl - lchildren[k].lpos.yi
SetMax(S) == IF S = {} THEN 0 ELSE CHOOSE m \in S : \A x \in S : x <= m
\* The row offset and the first index of the row before step j.
OffsetBefore(j) == IF j = 1 THEN 0 ELSE rlast.steps[j - 1].rowOffset
RowStartBefore(j) == IF j = 1 THEN 1 ELSE rlast.steps[j - 1].rowIndex
\* The highest box among the rendered children of the row open before j.
RowClosedHeight(j) ==
    SetMax({BoxHeight(k) : k \in {h \in RowStartBefore(j)..(j - 1) : Visible(h)}})

C23_GridColumns ==
    (Passed /\ lopts.layout = "grid") =>
        LET high == SetMax({lchildren[k].width : k \in DOMAIN lchildren}) IN
        \A j \in DOMAIN rlast.steps :
            /\ high = 0 => rlast.steps[j].left = 0
            /\ high > 0 => rlast.steps[j].left % high = 0
            /\ (high > 0 /\ Visible(j)) =>
                   (lchildren[j].lpos.xi - OriginX) % high = 0

\* widths 2, 5, 3 in a container of width 15: lefts 0, 5, 10
C23_Witness ==
    /\ Passed /\ lopts.layout = "grid" /\ InnerWidth = 15
    /\ Len(rlast.steps) = 3 /\ rlast.status = "ok"
    /\ lchildren[1].width = 2 /\ lchildren[2].width = 5 /\ lchildren[3].width = 3
    /\ lchildren[1].lpos.xi - OriginX = 0
    /\ lchildren[2].lpos.xi - OriginX = 5
    /\ lchildren[3].lpos.xi - OriginX = 10

Abs(x) == IF x < 0 THEN 0 - x ELSE x
\* The rendered children of the previous row at step j, and among them the
\* one whose left edge is nearest to the left of child j, the lowest index
\* winning ties.
PreviousRow(j) ==
    {k \in rlast.steps[j].lastRowIndex..(rlast.steps[j].rowIndex - 1) : Visible(k)}
Distance(j, k) == Abs(rlast.steps[j].left - (lchildren[k].lpos.xi - OriginX))
Above(j) ==
    CHOOSE k \in PreviousRow(j) :
        \A h \in PreviousRow(j) :
            Distance(j, k) < Distance(j, h) \/ (Distance(j, k) = Distance(j, h) /\ k <= h)

\* C25: in inline mode a child placed while a previous row exists gets as
\* top the bottom edge, counted from the container's top origin, of the
\* rendered sibling of the previous row whose left edge is nearest to its
\* own left; a child placed while no previous row exists keeps top 0; grid
\* mode leaves the top at the row offset.
C25_GravityCompaction ==
    Passed =>
        \A j \in DOMAIN rlast.steps :
            /\ (lopts.layout = "inline" /\ PreviousRow(j) # {}) =>
                   rlast.steps[j].top = lchildren[Above(j)].lpos.yl - OriginY
            /\ (lopts.layout = "inline"
                    /\ rlast.steps[j].lastRowIndex = rlast.steps[j].rowIndex) =>
                   rlast.steps[j].top = 0
            /\ lopts.layout = "grid" =>
                   rlast.steps[j].top = IF rlast.steps[j].last = 0 THEN 0
                                        ELSE rlast.steps[j].rowOffset

\* The nearest sibling before j with a box of positive width and height,
\* 0 when there is none.
LastVisible(j) == SetMax({k \in 1..(j - 1) : Visible(k)})

\* C26: every child is positioned from its last visible predecessor, the
\* nearest earlier sibling whose box has a positive width and height
\* (siblings with no box or with an empty one are passed over): it goes
\* right of that sibling's box, or to the start of a new row; a child with
\* no such predecessor is placed at the origin (0, 0).
C26_PlacedFromLastVisible ==
    Passed =>
        \A j \in DOMAIN rlast.steps :
            /\ rlast.steps[j].last = LastVisible(j)
            /\ LastVisible(j) = 0 =>
                   (rlast.steps[j].left = 0 /\ rlast.steps[j].top = 0)
            /\ LastVisible(j) # 0 =>
                   \/ rlast.steps[j].left = 0
                   \/ rlast.steps[j].left =
                         (lchildren[LastVisible(j)].lpos.xl - OriginX)
                         + (IF lopts.layout = "grid"
                            THEN SetMax({lchildren[k].width : k \in DOMAIN lchildren})
                                 - BoxWidth(LastVisible(j))
                            ELSE 0)

\* the second child has no height and is passed over; the first has no
\* predecessor
C26_Witness ==
    /\ Passed /\ Len(rlast.steps) = 3 /\ lopts.layout = "inline"
    /\ Visible(1) /\ ~Visible(2) /\ lchildren[2].height = 0
    /\ rlast.steps[2].last = 1
    /\ rlast.steps[3].last = 1
    /\ rlast.steps[3].left = lchildren[1].lpos.xl - OriginX
    /\ rlast.steps[3].left > 0
    /\ rlast.steps[1].last = 0 /\ lchildren[1].left = 0 /\ lchildren[1].top = 0

\* The rectangles the pass gave children j and k have a cell in common.
Overlap(j, k) ==
    /\ rlast.steps[j].left < rlast.steps[k].left + lchildren[k].width
    /\ rlast.steps[k].left < rlast.steps[j].left + lchildren[j].width
    /\ rlast.steps[j].top < rlast.steps[k].top + lchildren[k].height
    /\ rlast.steps[k].top < rlast.steps[j].top + lchildren[j].height

CallsOfDispatch(i) ==
    LET InDispatch(e) == e.disp = i
        c == SelectSeq(elast.log, InDispatch)
    IN [j \in DOMAIN c |-> Entry(c[j].fn, c[j].wid)]

\* C1: in every local dispatch, the listeners called are exactly the
\* listeners that were in the bucket when the dispatch began, each once and
\* in registration order, whatever the listeners remove meanwhile.
C1_DispatchCallsItsSnapshot ==
    elast.op = "emit" =>
        \A i \in DOMAIN elast.disps : CallsOfDispatch(i) = elast.disps[i].snap

\* C3: removeListener(type, listener) with listener registered for type
\* neither directly nor wrapped by once leaves the registry as it was and
\* fires no notification.
C3_RemoveAbsentIsNoOp ==
    (/\ elast.op = "off"
     /\ \A i \in DOMAIN elast.pre[elast.n][elast.k] :
            elast.pre[elast.n][elast.k][i].fn # elast.l.fn)
    => (events = elast.pre /\ elast.notif = <<>>)

\* C6: an emit of the type that starts with a once() wrapper in the bucket
\* calls the wrapped listener exactly once, and the wrapper is no longer in
\* the bucket when the listener starts, nested emits included.
C6_OnceRunsInFirstEmit ==
    elast.op = "emit" =>
        \A i \in DOMAIN elast.pre[elast.n][elast.k] :
            LET w == elast.pre[elast.n][elast.k][i].wid IN
            w # 0 =>
               /\ Cardinality({j \in DOMAIN elast.log : elast.log[j].wid = w}) = 1
               /\ \A j \in DOMAIN elast.log :
                     elast.log[j].wid = w => ~elast.log[j].present

\* The bucket without its entries for listener f.
Without(b, f) ==
    LET Other(e) == e.fn # f IN SelectSeq(b, Other)

\* C7: removeListener(type, f) on a bucket where f is registered by one
\* once() only removes that entry and leaves every other listener of the
\* registry in place and in order, and an emit of the type made next calls
\* f in no dispatch of that bucket.
C7_OffRemovesOnceEntry ==
    /\ (elast.op = "off" /\ PrevOff.once) =>
           events = [elast.pre EXCEPT ![elast.n][elast.k] = Without(@, elast.l.fn)]
    /\ (elast.op = "emit" /\ elast.prev.once
           /\ elast.prev.n = elast.n /\ elast.prev.k = elast.k) =>
           \A j \in DOMAIN elast.log :
               ~(elast.log[j].n = elast.n /\ elast.log[j].k = elast.k
                   /\ elast.log[j].fn = elast.prev.fn)

C7_Witness ==
    /\ elast.op = "emit" /\ elast.prev.once
    /\ elast.prev.n = elast.n /\ elast.prev.k = elast.k
    /\ Len(elast.pre[elast.n][elast.k]) = 2
    /\ Len(elast.log) >= 2

\* What the registry says a bucket yields, and the calls it makes.
Yields(reg, n, k) ==
    IF reg[n][k] = <<>> THEN "undef"
    ELSE IF \E i \in DOMAIN reg[n][k] : Ret(reg[n][k][i].fn) = "false" THEN "false"
    ELSE "true"
BucketCalls(reg, n, k, args) ==
    [i \in DOMAIN reg[n][k] |->
        [n |-> n, k |-> k, fn |-> reg[n][k][i].fn, args |-> args]]
LogCalls ==
    [i \in DOMAIN elast.log |->
        [n |-> elast.log[i].n, k |-> elast.log[i].k, fn |-> elast.log[i].fn,
         args |-> elast.log[i].args]]
\* The node and its ancestors, root-ward.
RECURSIVE PathFrom(_)
PathFrom(n) == IF n = Nil THEN <<>> ELSE <<n>> \o PathFrom(parent[n])
\* The calls of the root-ward walk from position i of the path on.
RECURSIVE WalkCalls(_, _, _, _, _)
WalkCalls(reg, path, i, k, args) ==
    IF i > Len(path) THEN <<>>
    ELSE BucketCalls(reg, path[i], k, args)
         \o (IF Yields(reg, path[i], k) = "false" THEN <<>>
             ELSE WalkCalls(reg, path, i + 1, k, args))
ElementCalled(n) ==
    \E j \in DOMAIN elast.log :
        elast.log[j].n = n /\ elast.log[j].k = El(elast.k)

\* C2: for an emit on a node that is not the root: when the local bucket
\* yields false no element-scoped listener runs anywhere and the emit
\* returns false; when the element-scoped bucket of a node of the walk
\* yields false no element-scoped listener of a further ancestor runs and
\* the emit returns false; when no bucket yields false it returns true.
C2_FalseCancelsTheWalk ==
    (elast.op = "emit" /\ ntype(elast.n) # "screen" /\ elast.ret # "throw") =>
        LET reg == elast.pre
            path == PathFrom(elast.n)
            k == El(elast.k)
        IN /\ Yields(reg, elast.n, elast.k) = "false" =>
                 /\ elast.ret = "false"
                 /\ \A m \in EvNodes : ~ElementCalled(m)
           /\ \A i \in DOMAIN path :
                 (/\ Yields(reg, elast.n, elast.k) # "false"
                  /\ Yields(reg, path[i], k) = "false"
                  /\ \A h \in 1..(i - 1) : Yields(reg, path[h], k) # "false") =>
                 /\ elast.ret = "false"
                 /\ \A j \in (i + 1)..Len(path) : ~ElementCalled(path[j])
           /\ (/\ Yields(reg, elast.n, elast.k) # "false"
               /\ \A i \in DOMAIN path : Yields(reg, path[i], k) # "false") =>
                 elast.ret = "true"

C2_Witness ==
    /\ elast.op = "emit" /\ elast.n = 4 /\ elast.k = "x"
    /\ elast.pre[4]["x"] # <<>>
    /\ Yields(elast.pre, 3, "element x") = "false"
    /\ elast.pre[1]["element x"] # <<>>
    /\ elast.ret = "false"
    /\ ElementCalled(3) /\ ~ElementCalled(1)

\* C4: an emit on a node that is not the root calls the node's `event`
\* listeners with args, then its listeners for the type with args in
\* registration order, then the element-scoped listeners of the node and
\* of each ancestor root-ward with the node prepended to args, up to the
\* first bucket that cancels; `event` listeners run on the emitting node
\* only and what they return cancels nothing.
C4_DispatchOrder ==
    (elast.op = "emit" /\ ntype(elast.n) # "screen" /\ elast.ret # "throw") =>
        LogCalls =
            BucketCalls(elast.pre, elast.n, "event", elast.args)
            \o BucketCalls(elast.pre, elast.n, elast.k, elast.args)
            \o (IF Yields(elast.pre, elast.n, elast.k) = "false" THEN <<>>
                ELSE WalkCalls(elast.pre, PathFrom(elast.n), 1, El(elast.k),
                               <<elast.n>> \o elast.args))

C4_Witness ==
    /\ elast.op = "emit" /\ elast.n = 4 /\ elast.k = "x" /\ elast.ret = "true"
    /\ Yields(elast.pre, 4, "event") = "false"
    /\ elast.pre[4]["x"] # <<>>
    /\ elast.pre[3]["element x"] # <<>>
    /\ Len(elast.log) = 3
    /\ elast.log[3].args = <<4, 0>>

\* C5: an emit on the screen calls the screen's `event` listeners and its
\* listeners for the type and no element-scoped listener, and returns what
\* the bucket of the type yields.
C5_RootExemption ==
    (elast.op = "emit" /\ ntype(elast.n) = "screen" /\ elast.ret # "throw") =>
        /\ LogCalls = BucketCalls(elast.pre, elast.n, "event", elast.args)
                      \o BucketCalls(elast.pre, elast.n, elast.k, elast.args)
        /\ elast.ret = Yields(elast.pre, elast.n, elast.k)

C5_Witness ==
    /\ elast.op = "emit" /\ elast.n = 1 /\ elast.k = "x"
    /\ elast.pre[1]["element x"] # <<>>
    /\ elast.pre[1]["x"] # <<>>
    /\ elast.pre[1]["event"] # <<>>
    /\ elast.ret = "true"

\* C8: emit("error") on a node with no `error` listener of its own raises,
\* whatever its ancestors listen to; an emit of another type on a node
\* with no listener for it returns.
C8_UnhandledErrorRaises ==
    elast.op = "emit" =>
        /\ (elast.k = "error" /\ elast.pre[elast.n]["error"] = <<>>) =>
              elast.ret = "throw"
        /\ (elast.k # "error" /\ elast.pre[elast.n][elast.k] = <<>>) =>
              elast.ret # "throw"

C8_Witness ==
    /\ elast.op = "emit" /\ elast.n = 4 /\ elast.k = "error"
    /\ elast.pre[4]["error"] = <<>>
    /\ elast.pre[3]["element error"] # <<>>
    /\ elast.pre[4]["event"] # <<>>
    /\ elast.ret = "throw"

\* The calls the emit made in the bucket of its own type on its own node.
LocalCalls ==
    LET Local(c) == c.n = elast.n /\ c.k = elast.k IN SelectSeq(LogCalls, Local)
ElementCallsOf ==
    LET Scoped(c) == c.k = El(elast.k) IN SelectSeq(LogCalls, Scoped)
ReturnsFalse(b) == \E i \in DOMAIN b : Ret(b[i].fn) = "false"

\* C24: the local dispatch of an emit calls every listener of the bucket,
\* also those after one that returned false; it yields false exactly when
\* a listener returned false (a listener returning undefined cancels
\* nothing): the screen's emit returns false exactly then, and the emit of
\* another node goes on to the element-scoped walk exactly when no listener
\* returned false; with no bucket for a type other than `error` nothing is
\* called locally, the screen's emit returns undefined and the walk of
\* another node is made.
C24_LocalDispatchRunsWholeBucket ==
    (elast.op = "emit" /\ elast.ret # "throw") =>
        LET b == elast.pre[elast.n][elast.k] IN
        /\ LocalCalls = BucketCalls(elast.pre, elast.n, elast.k, elast.args)
        /\ ntype(elast.n) = "screen" =>
              /\ elast.ret = "false" <=> ReturnsFalse(b)
              /\ elast.ret = "undef" <=> b = <<>>
        /\ ntype(elast.n) # "screen" =>
              /\ ReturnsFalse(b) => (elast.ret = "false" /\ ElementCallsOf = <<>>)
              /\ ~ReturnsFalse(b) =>
                    ElementCallsOf =
                        WalkCalls(elast.pre, PathFrom(elast.n), 1, El(elast.k),
                                  <<elast.n>> \o elast.args)

C24_Witness ==
    /\ elast.op = "emit" /\ elast.n = 1 /\ elast.k = "x"
    /\ elast.pre[1]["x"] = <<Entry(2, 0), Entry(1, 0)>>
    /\ Len(LocalCalls) = 2
    /\ elast.ret = "false"

====
